---- MODULE Spec2Model ----
(***************************************************************************)
(* A model of the dnd crate's core value types: the four bounded scalars   *)
(* (AbilityScore, AbilityModifier, Level, ProficiencyBonus), the Ability   *)
(* and Skill tables, and the SkillProficiencies set.                       *)
(*                                                                         *)
(* Five specifications share the module.  SpecScalar drives the pure       *)
(* constructors, derivations, parsers and table lookups: each step is one  *)
(* call, recorded in `call` with its result in `ret`.  SpecSerde does the  *)
(* same for encoding and decoding, SpecBuild for new(raw) in a debug and   *)
(* in a release build.  Spec drives one SkillProficiencies                 *)
(* value through its mutating operations, SpecAbilities one Abilities      *)
(* value through its constructors and indexed writes.                      *)
(***************************************************************************)
EXTENDS Integers, Sequences, FiniteSets, TLC

VARIABLES
    call,   \* SpecScalar: the last call made, [fn, arg]
    ret,    \* SpecScalar: what that call returned, [tag, ty, v, msg]
    profs,  \* Spec: the SkillProficiencies value, [proficient, expertise]
    pre,    \* Spec: the value of profs before the last operation
    op,     \* Spec: the last operation applied, [name, skill, level]
    effect, \* Spec: per skill, the level the last operation naming it (or
            \* clear_all) asked for; None when there is no such operation
    abilities,     \* SpecAbilities: the Abilities value, one score per field
    abilitiesPre,  \* SpecAbilities: the value of abilities before the last operation
    abilitiesOp,   \* SpecAbilities: the last operation, [name, ability, value]
    written        \* SpecAbilities: per ability, the score last written to its
                   \* slot, or the score the constructor gave it

abilityVars == <<abilities, abilitiesPre, abilitiesOp, written>>

vars == <<call, ret, profs, pre, op, effect, abilityVars>>

(***************************************************************************)
(* Machine integers.                                                       *)
(***************************************************************************)
\* Every value of a u8.
U8 == 0..255

\* Every value of an i8.
I8 == -128..127

\* `x as i8` for a u8 x: the same bit pattern read as two's complement.
U8AsI8(x) == IF x >= 128 THEN x - 256 ELSE x

\* An i8 result reduced to the 8-bit two's-complement range (wrapping).
WrapI8(x) == ((x + 128) % 256) - 128

\* Plausible bug: division by two that truncates toward zero.
ShrTruncating(x) == IF x < 0 THEN -((-x) \div 2) ELSE x \div 2

\* `x >> 1` on an i8: arithmetic shift right of the two's-complement bit
\* pattern, the sign bit copied into the vacated position.
I8Shr1(x) ==
    LET bits    == (x + 256) % 256
        shifted == (bits \div 2) + (IF bits >= 128 THEN 128 ELSE 0)
    IN  U8AsI8(shifted)

(***************************************************************************)
(* Results.  A call returns a plain value (tag "Val"), a Result (tag "Ok"  *)
(* or "Err" with its message), or panics (tag "Panic").                    *)
(***************************************************************************)
Val(ty, v) == [tag |-> "Val", ty |-> ty, v |-> v, msg |-> ""]
Ok(ty, v) == [tag |-> "Ok", ty |-> ty, v |-> v, msg |-> ""]
Err(ty, msg) == [tag |-> "Err", ty |-> ty, v |-> 0, msg |-> msg]
Panic(ty, msg) == [tag |-> "Panic", ty |-> ty, v |-> 0, msg |-> msg]
NoRet == [tag |-> "None", ty |-> "", v |-> 0, msg |-> ""]
NoCall == [fn |-> "", arg |-> 0]

\* The call returned a scalar of type ty (directly or inside Ok).
Returned(r, ty) == r.tag \in {"Val", "Ok"} /\ r.ty = ty

(***************************************************************************)
(* AbilityModifier                                                         *)
(***************************************************************************)
AbilityModifier_MIN == -5
AbilityModifier_MAX == 10

\* Plausible bug: the upper bound is not enforced.
AbilityModifier_new_clamped_NoUpper(value) ==
    IF value < AbilityModifier_MIN
    THEN Val("AbilityModifier", AbilityModifier_MIN)
    ELSE Val("AbilityModifier", value)

AbilityModifier_new_clamped(value) ==
    IF value < AbilityModifier_MIN
    THEN Val("AbilityModifier", AbilityModifier_MIN)
    ELSE IF value > AbilityModifier_MAX
         THEN Val("AbilityModifier", AbilityModifier_MAX)
         ELSE Val("AbilityModifier", value)


\* debug_assert!(in range, "..."); Self::new_clamped(value)
AbilityModifier_new(value, debug_assertions) ==
    IF debug_assertions /\ ~(~(value < AbilityModifier_MIN \/ value > AbilityModifier_MAX))
    THEN Panic("AbilityModifier", "Ability modifier must be between -5 and 10")
    ELSE AbilityModifier_new_clamped(value)

AbilityModifier_try_new(value) ==
    IF value < AbilityModifier_MIN
    THEN Err("AbilityModifier", "Ability modifier cannot be less than -5")
    ELSE IF value > AbilityModifier_MAX
         THEN Err("AbilityModifier", "Ability modifier cannot be greater than 10")
         ELSE Ok("AbilityModifier", value)

AbilityModifier_try_from(value) == AbilityModifier_try_new(value)

(***************************************************************************)
(* AbilityScore                                                            *)
(***************************************************************************)
AbilityScore_MIN == 1
AbilityScore_MAX == 30
AbilityScore_DEFAULT == 10

AbilityScore_new_clamped(value) ==
    IF value < AbilityScore_MIN
    THEN Val("AbilityScore", AbilityScore_MIN)
    ELSE IF value > AbilityScore_MAX
         THEN Val("AbilityScore", AbilityScore_MAX)
         ELSE Val("AbilityScore", value)


\* Plausible bug: the debug assertion is missing.
AbilityScore_new_NoAssert(value, debug_assertions) == AbilityScore_new_clamped(value)

\* debug_assert!(in range, "..."); Self::new_clamped(value)
AbilityScore_new(value, debug_assertions) ==
    IF debug_assertions /\ ~(~(value < AbilityScore_MIN \/ value > AbilityScore_MAX))
    THEN Panic("AbilityScore", "Ability score must be between 1 and 30")
    ELSE AbilityScore_new_clamped(value)

AbilityScore_try_new(value) ==
    IF value < AbilityScore_MIN
    THEN Err("AbilityScore", "Ability score cannot be less than 1")
    ELSE IF value > AbilityScore_MAX
         THEN Err("AbilityScore", "Ability score cannot be greater than 30")
         ELSE Ok("AbilityScore", value)

AbilityScore_try_from(value) == AbilityScore_try_new(value)

\* Plausible bug: `/ 2` (truncating) in place of `>> 1`.
AbilityScore_modifier_Truncating(value) ==
    AbilityModifier_new_clamped(ShrTruncating(WrapI8(U8AsI8(value) - 10)))

\* (self.value() as i8 - 10) >> 1, then AbilityModifier::new_clamped.
AbilityScore_modifier(value) ==
    AbilityModifier_new_clamped(I8Shr1(WrapI8(U8AsI8(value) - 10)))

\* impl From<AbilityScore> for AbilityModifier
AbilityModifier_from(value) == AbilityScore_modifier(value)

(***************************************************************************)
(* ProficiencyBonus                                                        *)
(***************************************************************************)
ProficiencyBonus_MIN == 2
ProficiencyBonus_MAX == 9

ProficiencyBonus_new_clamped(value) ==
    IF value < ProficiencyBonus_MIN
    THEN Val("ProficiencyBonus", ProficiencyBonus_MIN)
    ELSE IF value > ProficiencyBonus_MAX
         THEN Val("ProficiencyBonus", ProficiencyBonus_MAX)
         ELSE Val("ProficiencyBonus", value)


\* debug_assert!(in range, "..."); Self::new_clamped(value)
ProficiencyBonus_new(value, debug_assertions) ==
    IF debug_assertions /\ ~(~(value < ProficiencyBonus_MIN \/ value > ProficiencyBonus_MAX))
    THEN Panic("ProficiencyBonus", "Proficiency bonus must be between 2 and 9")
    ELSE ProficiencyBonus_new_clamped(value)

ProficiencyBonus_try_new(value) ==
    IF value < ProficiencyBonus_MIN
    THEN Err("ProficiencyBonus", "Proficiency bonus cannot be less than 2")
    ELSE IF value > ProficiencyBonus_MAX
         THEN Err("ProficiencyBonus", "Proficiency bonus cannot be greater than 9")
         ELSE Ok("ProficiencyBonus", value)

ProficiencyBonus_try_from(value) == ProficiencyBonus_try_new(value)

(***************************************************************************)
(* Level                                                                   *)
(***************************************************************************)
Level_MIN == 1
Level_MAX == 20

\* Plausible bug: `>=` in the upper comparison, so MAX - 1 is the largest kept.
Level_new_clamped_OffByOne(value) ==
    IF value < Level_MIN
    THEN Val("Level", Level_MIN)
    ELSE IF value >= Level_MAX
         THEN Val("Level", Level_MAX - 1)
         ELSE Val("Level", value)

Level_new_clamped(value) ==
    IF value < Level_MIN
    THEN Val("Level", Level_MIN)
    ELSE IF value > Level_MAX
         THEN Val("Level", Level_MAX)
         ELSE Val("Level", value)


\* Plausible bug: the lower bound is not checked, so level 0 is accepted.
Level_try_new_AcceptsZero(value) ==
    IF value > Level_MAX
    THEN Err("Level", "Level cannot be greater than 20")
    ELSE Ok("Level", value)

\* Plausible bug: the upper-bound message copied from AbilityScore.
Level_try_new_WrongMessage(value) ==
    IF value < Level_MIN
    THEN Err("Level", "Level cannot be less than 1")
    ELSE IF value > Level_MAX
         THEN Err("Level", "Level cannot be greater than 30")
         ELSE Ok("Level", value)

Level_try_new(value) ==
    IF value < Level_MIN
    THEN Err("Level", "Level cannot be less than 1")
    ELSE IF value > Level_MAX
         THEN Err("Level", "Level cannot be greater than 20")
         ELSE Ok("Level", value)

Level_try_from(value) == Level_try_new(value)

\* Plausible bug: the tiers start one level late (2..5, 6..9, ...).
Level_proficiency_bonus_Shifted(value) ==
    CASE value \in 1..5   -> ProficiencyBonus_new_clamped(2)
      [] value \in 6..9   -> ProficiencyBonus_new_clamped(3)
      [] value \in 10..13 -> ProficiencyBonus_new_clamped(4)
      [] value \in 14..17 -> ProficiencyBonus_new_clamped(5)
      [] value \in 18..20 -> ProficiencyBonus_new_clamped(6)
      [] value \in 21..24 -> ProficiencyBonus_new_clamped(7)
      [] value \in 25..28 -> ProficiencyBonus_new_clamped(8)
      [] value \in 29..30 -> ProficiencyBonus_new_clamped(9)
      [] OTHER -> Panic("ProficiencyBonus", "unreachable")


\* Plausible bug: the arms above level 20 are missing.
Level_proficiency_bonus_NoExtension(value) ==
    CASE value \in 1..4   -> ProficiencyBonus_new_clamped(2)
      [] value \in 5..8   -> ProficiencyBonus_new_clamped(3)
      [] value \in 9..12  -> ProficiencyBonus_new_clamped(4)
      [] value \in 13..16 -> ProficiencyBonus_new_clamped(5)
      [] value \in 17..20 -> ProficiencyBonus_new_clamped(6)
      [] OTHER -> Panic("ProficiencyBonus", "unreachable")

\* The match on self.value(), its result through ProficiencyBonus::new_clamped;
\* the `_ => unreachable!()` arm panics.
Level_proficiency_bonus(value) ==
    CASE value \in 1..4   -> ProficiencyBonus_new_clamped(2)
      [] value \in 5..8   -> ProficiencyBonus_new_clamped(3)
      [] value \in 9..12  -> ProficiencyBonus_new_clamped(4)
      [] value \in 13..16 -> ProficiencyBonus_new_clamped(5)
      [] value \in 17..20 -> ProficiencyBonus_new_clamped(6)
      [] value \in 21..24 -> ProficiencyBonus_new_clamped(7)
      [] value \in 25..28 -> ProficiencyBonus_new_clamped(8)
      [] value \in 29..30 -> ProficiencyBonus_new_clamped(9)
      [] OTHER -> Panic("ProficiencyBonus", "unreachable")

\* impl From<Level> for ProficiencyBonus
ProficiencyBonus_from(value) == Level_proficiency_bonus(value)

(***************************************************************************)
(* Ability and Skill: the two closed enumerations and their tables.        *)
(***************************************************************************)

\* Plausible bug: a variant is listed twice and the last one is missing.
Ability_all_WisdomTwice ==
    <<"Strength", "Dexterity", "Constitution", "Intelligence", "Wisdom", "Wisdom">>

Ability_all ==
    <<"Strength", "Dexterity", "Constitution", "Intelligence", "Wisdom", "Charisma">>

Skill_all ==
    <<"Acrobatics", "AnimalHandling", "Arcana", "Athletics", "Deception", "History",
      "Insight", "Intimidation", "Investigation", "Medicine", "Nature", "Perception",
      "Performance", "Persuasion", "Religion", "SleightOfHand", "Stealth", "Survival">>

\* The variants of each enumeration.
Ability == {"Strength", "Dexterity", "Constitution", "Intelligence", "Wisdom", "Charisma"}

Skill ==
    {"Acrobatics", "AnimalHandling", "Arcana", "Athletics", "Deception", "History",
     "Insight", "Intimidation", "Investigation", "Medicine", "Nature", "Perception",
     "Performance", "Persuasion", "Religion", "SleightOfHand", "Stealth", "Survival"}

\* Plausible bug: Stealth filed under Wisdom.
Skill_ability_StealthWisdom(skill) ==
    CASE skill \in {"Acrobatics", "SleightOfHand"} -> "Dexterity"
      [] skill = "Athletics" -> "Strength"
      [] skill \in {"AnimalHandling", "Insight", "Medicine", "Perception", "Survival",
                    "Stealth"} -> "Wisdom"
      [] skill \in {"Arcana", "History", "Investigation", "Nature", "Religion"} ->
            "Intelligence"
      [] skill \in {"Deception", "Intimidation", "Performance", "Persuasion"} ->
            "Charisma"

Skill_ability(skill) ==
    CASE skill \in {"Acrobatics", "SleightOfHand", "Stealth"} -> "Dexterity"
      [] skill = "Athletics" -> "Strength"
      [] skill \in {"AnimalHandling", "Insight", "Medicine", "Perception", "Survival"} ->
            "Wisdom"
      [] skill \in {"Arcana", "History", "Investigation", "Nature", "Religion"} ->
            "Intelligence"
      [] skill \in {"Deception", "Intimidation", "Performance", "Persuasion"} ->
            "Charisma"


\* Plausible bug: Athletics is listed under Constitution as well.
Ability_skills_ConstitutionAthletics(ability) ==
    CASE ability = "Strength" -> <<"Athletics">>
      [] ability = "Dexterity" -> <<"Acrobatics", "SleightOfHand", "Stealth">>
      [] ability = "Constitution" -> <<"Athletics">>
      [] ability = "Intelligence" ->
            <<"Arcana", "History", "Investigation", "Nature", "Religion">>
      [] ability = "Wisdom" ->
            <<"AnimalHandling", "Insight", "Medicine", "Perception", "Survival">>
      [] ability = "Charisma" ->
            <<"Deception", "Intimidation", "Performance", "Persuasion">>

Ability_skills(ability) ==
    CASE ability = "Strength" -> <<"Athletics">>
      [] ability = "Dexterity" -> <<"Acrobatics", "SleightOfHand", "Stealth">>
      [] ability = "Constitution" -> <<>>
      [] ability = "Intelligence" ->
            <<"Arcana", "History", "Investigation", "Nature", "Religion">>
      [] ability = "Wisdom" ->
            <<"AnimalHandling", "Insight", "Medicine", "Perception", "Survival">>
      [] ability = "Charisma" ->
            <<"Deception", "Intimidation", "Performance", "Persuasion">>

\* slice.contains(x)
Contains(seq, x) == \E i \in 1..Len(seq) : seq[i] = x


(***************************************************************************)
(* Names and parsing.  A variant is written as its Rust identifier; name(), *)
(* abbr() and from_str are the match tables of the source.                 *)
(***************************************************************************)
Ability_name(self) ==
    CASE self = "Strength" -> "Strength"
      [] self = "Dexterity" -> "Dexterity"
      [] self = "Constitution" -> "Constitution"
      [] self = "Intelligence" -> "Intelligence"
      [] self = "Wisdom" -> "Wisdom"
      [] self = "Charisma" -> "Charisma"

Ability_abbr(self) ==
    CASE self = "Strength" -> "STR"
      [] self = "Dexterity" -> "DEX"
      [] self = "Constitution" -> "CON"
      [] self = "Intelligence" -> "INT"
      [] self = "Wisdom" -> "WIS"
      [] self = "Charisma" -> "CHA"

\* Plausible bug: the abbreviations are not matched.
Ability_from_str_NamesOnly(s) ==
    IF s \in Ability THEN Ok("Ability", s) ELSE Err("Ability", "Unknown ability")

Ability_from_str(s) ==
    CASE s \in {"Strength", "STR"} -> Ok("Ability", "Strength")
      [] s \in {"Dexterity", "DEX"} -> Ok("Ability", "Dexterity")
      [] s \in {"Constitution", "CON"} -> Ok("Ability", "Constitution")
      [] s \in {"Intelligence", "INT"} -> Ok("Ability", "Intelligence")
      [] s \in {"Wisdom", "WIS"} -> Ok("Ability", "Wisdom")
      [] s \in {"Charisma", "CHA"} -> Ok("Ability", "Charisma")
      [] OTHER -> Err("Ability", "Unknown ability")

Skill_name(self) ==
    CASE self = "Acrobatics" -> "Acrobatics"
      [] self = "AnimalHandling" -> "Animal Handling"
      [] self = "Arcana" -> "Arcana"
      [] self = "Athletics" -> "Athletics"
      [] self = "Deception" -> "Deception"
      [] self = "History" -> "History"
      [] self = "Insight" -> "Insight"
      [] self = "Intimidation" -> "Intimidation"
      [] self = "Investigation" -> "Investigation"
      [] self = "Medicine" -> "Medicine"
      [] self = "Nature" -> "Nature"
      [] self = "Perception" -> "Perception"
      [] self = "Performance" -> "Performance"
      [] self = "Persuasion" -> "Persuasion"
      [] self = "Religion" -> "Religion"
      [] self = "SleightOfHand" -> "Sleight of Hand"
      [] self = "Stealth" -> "Stealth"
      [] self = "Survival" -> "Survival"

\* Plausible bug: the variant identifiers are matched, not the display names.
Skill_from_str_ByIdentifier(s) ==
    IF s \in Skill THEN Ok("Skill", s) ELSE Err("Skill", "Unknown skill")

Skill_from_str(s) ==
    CASE s = "Acrobatics" -> Ok("Skill", "Acrobatics")
      [] s = "Animal Handling" -> Ok("Skill", "AnimalHandling")
      [] s = "Arcana" -> Ok("Skill", "Arcana")
      [] s = "Athletics" -> Ok("Skill", "Athletics")
      [] s = "Deception" -> Ok("Skill", "Deception")
      [] s = "History" -> Ok("Skill", "History")
      [] s = "Insight" -> Ok("Skill", "Insight")
      [] s = "Intimidation" -> Ok("Skill", "Intimidation")
      [] s = "Investigation" -> Ok("Skill", "Investigation")
      [] s = "Medicine" -> Ok("Skill", "Medicine")
      [] s = "Nature" -> Ok("Skill", "Nature")
      [] s = "Perception" -> Ok("Skill", "Perception")
      [] s = "Performance" -> Ok("Skill", "Performance")
      [] s = "Persuasion" -> Ok("Skill", "Persuasion")
      [] s = "Religion" -> Ok("Skill", "Religion")
      [] s = "Sleight of Hand" -> Ok("Skill", "SleightOfHand")
      [] s = "Stealth" -> Ok("Skill", "Stealth")
      [] s = "Survival" -> Ok("Skill", "Survival")
      [] OTHER -> Err("Skill", "Unknown skill")

\* The strings given to from_str: every name, abbreviation and variant
\* identifier, and strings that are none of them.
InputStrings ==
    {Ability_name(Ability_all[i]) : i \in 1..Len(Ability_all)}
        \cup {Ability_abbr(Ability_all[i]) : i \in 1..Len(Ability_all)}
        \cup {Skill_name(Skill_all[i]) : i \in 1..Len(Skill_all)}
        \cup {Skill_all[i] : i \in 1..Len(Skill_all)}
        \cup {"", "invalid", "strength", "STRENGTH", "str", "Str", "dexterity", "dex",
              "con", "int", "wis", "cha", "Strength ", "acrobatics", "ACROBATICS",
              "sleight of hand", "Sleight Of Hand", "Sleight of hand", "animal handling",
              "Animal_Handling", "ACR", "SoH", "Sleight"}

(***************************************************************************)
(* BitFlags<Skill>: a u32 with one bit per variant.  #[bitflags] gives the *)
(* variants the bits 1 << 0, 1 << 1, ... in declaration order.             *)
(***************************************************************************)
Skill_index(skill) == CHOOSE i \in 1..Len(Skill_all) : Skill_all[i] = skill

Skill_bits(skill) == 2 ^ (Skill_index(skill) - 1)

BitFlags_EMPTY == 0

RECURSIVE BitAnd(_, _)
\* a & b
BitAnd(a, b) ==
    IF a = 0 \/ b = 0 THEN 0
    ELSE ((a % 2) * (b % 2)) + 2 * BitAnd(a \div 2, b \div 2)

RECURSIVE BitOr(_, _)
\* a | b
BitOr(a, b) ==
    IF a = 0 THEN b
    ELSE IF b = 0 THEN a
    ELSE (IF (a % 2) + (b % 2) > 0 THEN 1 ELSE 0) + 2 * BitOr(a \div 2, b \div 2)

RECURSIVE BitAndNot(_, _)
\* a & !b
BitAndNot(a, b) ==
    IF a = 0 THEN 0
    ELSE ((a % 2) * (1 - (b % 2))) + 2 * BitAndNot(a \div 2, b \div 2)

BitFlags_contains(flags, skill) == BitAnd(flags, Skill_bits(skill)) = Skill_bits(skill)

BitFlags_insert(flags, skill) == BitOr(flags, Skill_bits(skill))

\* Plausible bug: the bit is toggled (^=) instead of cleared (&= !).
BitFlags_remove_Toggle(flags, skill) ==
    IF BitAnd(flags, Skill_bits(skill)) = Skill_bits(skill)
    THEN BitAndNot(flags, Skill_bits(skill))
    ELSE BitOr(flags, Skill_bits(skill))

BitFlags_remove(flags, skill) == BitAndNot(flags, Skill_bits(skill))

(***************************************************************************)
(* SkillLevel, Option<SkillLevel> and SkillProficiencies.                  *)
(***************************************************************************)
SkillLevel == {"Proficient", "Expertise"}

Some(x) == <<x>>
None == <<>>

SkillProficiencies_new == [proficient |-> BitFlags_EMPTY, expertise |-> BitFlags_EMPTY]

\* Plausible bug: a skill with expertise also counts as proficient.
is_proficient_OrExpertise(self, skill) ==
    BitFlags_contains(self.proficient, skill) \/ BitFlags_contains(self.expertise, skill)

is_proficient(self, skill) == BitFlags_contains(self.proficient, skill)

has_expertise(self, skill) == BitFlags_contains(self.expertise, skill)

get_proficiency(self, skill) ==
    IF has_expertise(self, skill) THEN Some("Expertise")
    ELSE IF is_proficient(self, skill) THEN Some("Proficient")
    ELSE None

\* Plausible bug: the other set is not cleared when a level is set.
set_proficiency_NoEvict(self, skill, proficiency) ==
    IF proficiency = "Proficient"
    THEN [self EXCEPT !.proficient = BitFlags_insert(@, skill)]
    ELSE [self EXCEPT !.expertise = BitFlags_insert(@, skill)]

set_proficiency(self, skill, proficiency) ==
    IF proficiency = "Proficient"
    THEN [proficient |-> BitFlags_insert(self.proficient, skill),
          expertise  |-> BitFlags_remove(self.expertise, skill)]
    ELSE [proficient |-> BitFlags_remove(self.proficient, skill),
          expertise  |-> BitFlags_insert(self.expertise, skill)]

RECURSIVE set_proficiencies(_, _)
\* for (skill, proficiency) in skills { self.set_proficiency(skill, proficiency); }
set_proficiencies(self, skills) ==
    IF skills = <<>> THEN self
    ELSE set_proficiencies(set_proficiency(self, Head(skills)[1], Head(skills)[2]),
                           Tail(skills))


RECURSIVE Reverse(_)
Reverse(seq) == IF seq = <<>> THEN <<>> ELSE Reverse(Tail(seq)) \o <<Head(seq)>>

\* Plausible bug: the first pair naming a skill wins instead of the last.
with_proficiencies_FirstWins(proficient) ==
    set_proficiencies(SkillProficiencies_new, Reverse(proficient))

with_proficiencies(proficient) == set_proficiencies(SkillProficiencies_new, proficient)


\* Plausible bug: the proficient set is assigned the one skill (=) instead of
\* having it inserted (|=).
set_proficient_Overwrites(self, skill) ==
    [proficient |-> Skill_bits(skill),
     expertise  |-> BitFlags_remove(self.expertise, skill)]

set_proficient(self, skill) == set_proficiency(self, skill, "Proficient")

\* Plausible bug: set_expertise written as a copy of set_proficient.
set_expertise_AsProficient(self, skill) == set_proficiency(self, skill, "Proficient")

set_expertise(self, skill) == set_proficiency(self, skill, "Expertise")

\* Plausible bug: only the proficient set is cleared.
clear_proficiency_ProficientOnly(self, skill) ==
    [self EXCEPT !.proficient = BitFlags_remove(@, skill)]

clear_proficiency(self, skill) ==
    [proficient |-> BitFlags_remove(self.proficient, skill),
     expertise  |-> BitFlags_remove(self.expertise, skill)]

\* Plausible bug: the expertise set is left as it was.
clear_all_ProficientOnly(self) == [self EXCEPT !.proficient = BitFlags_EMPTY]

clear_all(self) == [proficient |-> BitFlags_EMPTY, expertise |-> BitFlags_EMPTY]

RECURSIVE iter_from(_, _)
\* Skill::all().iter().filter_map(..), from position i of Skill::all()
iter_from(self, i) ==
    IF i > Len(Skill_all) THEN <<>>
    ELSE LET skill == Skill_all[i]
             rest  == iter_from(self, i + 1)
         IN  IF has_expertise(self, skill) THEN <<(<<skill, "Expertise">>)>> \o rest
             ELSE IF is_proficient(self, skill) THEN <<(<<skill, "Proficient">>)>> \o rest
             ELSE rest

\* Plausible bug: the two bit sets are walked one after the other.
iter_ProficientFirst(self) ==
    LET only(level) ==
            IF level = "Proficient"
            THEN [proficient |-> self.proficient, expertise |-> BitFlags_EMPTY]
            ELSE [proficient |-> BitFlags_EMPTY, expertise |-> self.expertise]
    IN  iter_from(only("Proficient"), 1) \o iter_from(only("Expertise"), 1)

iter(self) == iter_from(self, 1)


(***************************************************************************)
(* Abilities: six public AbilityScore fields, read and written through     *)
(* Index<Ability> / IndexMut<Ability>.  A score is held as its value.      *)
(***************************************************************************)
\* Plausible bug: one field of the struct literal is left at the default.
Abilities_with_uniform_CharismaDefault(value) ==
    [strength     |-> value,
     dexterity    |-> value,
     constitution |-> value,
     intelligence |-> value,
     wisdom       |-> value,
     charisma     |-> AbilityScore_DEFAULT]

Abilities_with_uniform(value) ==
    [strength     |-> value,
     dexterity    |-> value,
     constitution |-> value,
     intelligence |-> value,
     wisdom       |-> value,
     charisma     |-> value]

Abilities_new == Abilities_with_uniform(AbilityScore_DEFAULT)

Abilities_default == Abilities_new

\* abilities[ability]
Abilities_index(self, ability) ==
    CASE ability = "Strength" -> self.strength
      [] ability = "Dexterity" -> self.dexterity
      [] ability = "Constitution" -> self.constitution
      [] ability = "Intelligence" -> self.intelligence
      [] ability = "Wisdom" -> self.wisdom
      [] ability = "Charisma" -> self.charisma

\* Plausible bug: two arms of the match name the same field.
Abilities_index_mut_WisdomAsIntelligence(self, ability, value) ==
    CASE ability = "Strength" -> [self EXCEPT !.strength = value]
      [] ability = "Dexterity" -> [self EXCEPT !.dexterity = value]
      [] ability = "Constitution" -> [self EXCEPT !.constitution = value]
      [] ability = "Intelligence" -> [self EXCEPT !.intelligence = value]
      [] ability = "Wisdom" -> [self EXCEPT !.intelligence = value]
      [] ability = "Charisma" -> [self EXCEPT !.charisma = value]

\* abilities[ability] = value
Abilities_index_mut(self, ability, value) ==
    CASE ability = "Strength" -> [self EXCEPT !.strength = value]
      [] ability = "Dexterity" -> [self EXCEPT !.dexterity = value]
      [] ability = "Constitution" -> [self EXCEPT !.constitution = value]
      [] ability = "Intelligence" -> [self EXCEPT !.intelligence = value]
      [] ability = "Wisdom" -> [self EXCEPT !.wisdom = value]
      [] ability = "Charisma" -> [self EXCEPT !.charisma = value]

(***************************************************************************)
(* Bounds of the SkillProficiencies inputs.                                *)
(***************************************************************************)
\* Operations name the first MaxSkills skills of Skill::all(), and the last.
MaxSkills == 2

\* The longest sequence of pairs given to a bulk operation.
MaxPairs == 2

InputSkills == {Skill_all[i] : i \in 1..MaxSkills} \cup {Skill_all[Len(Skill_all)]}

InputPairs == InputSkills \X SkillLevel

InputPairSeqs == UNION {[1..n -> InputPairs] : n \in 0..MaxPairs}



\* Plausible bug: the pairs are produced from the last ability to the first.
Abilities_iter_Reversed(self) ==
    [i \in 1..Len(Ability_all) |->
        <<Ability_all[Len(Ability_all) + 1 - i],
          Abilities_index(self, Ability_all[Len(Ability_all) + 1 - i])>>]

\* Ability::all().iter().map(move |&ability| (ability, self[ability]))
Abilities_iter(self) ==
    [i \in 1..Len(Ability_all) |-> <<Ability_all[i], Abilities_index(self, Ability_all[i])>>]

\* Abilities operations take the first MaxScores scores from AbilityScore::MIN
\* up, and AbilityScore::DEFAULT.
MaxScores == 2

InputScores ==
    {AbilityScore_MIN + i - 1 : i \in 1..MaxScores} \cup {AbilityScore_DEFAULT}

(***************************************************************************)
(* serde: derive(Serialize, Deserialize) on every type, and the serde      *)
(* implementation of BitFlags<Skill>.  Encoded data is written as          *)
(* serde_json writes it: a number, a string, or an object of named fields. *)
(***************************************************************************)
JsonNumber(n) == <<"number", n>>

JsonString(s) == <<"string", s>>

JsonObject(fields) == <<"object", fields>>

\* Ok(value) of a decode; the value was built from the encoded data.
Decoded(ty, v) == [tag |-> "Decoded", ty |-> ty, v |-> v, msg |-> ""]

\* A newtype struct encodes as its field.
AbilityScore_serialize(self) == JsonNumber(self)

\* A newtype struct decodes by decoding its field (a u8) and wrapping it.
AbilityScore_deserialize(data) ==
    IF data[1] = "number" /\ data[2] \in U8
    THEN Decoded("AbilityScore", data[2])
    ELSE Err("AbilityScore", "invalid type")

AbilityModifier_serialize(self) == JsonNumber(self)

AbilityModifier_deserialize(data) ==
    IF data[1] = "number" /\ data[2] \in I8
    THEN Decoded("AbilityModifier", data[2])
    ELSE Err("AbilityModifier", "invalid type")

Level_serialize(self) == JsonNumber(self)

Level_deserialize(data) ==
    IF data[1] = "number" /\ data[2] \in U8
    THEN Decoded("Level", data[2])
    ELSE Err("Level", "invalid type")

ProficiencyBonus_serialize(self) == JsonNumber(self)

ProficiencyBonus_deserialize(data) ==
    IF data[1] = "number" /\ data[2] \in U8
    THEN Decoded("ProficiencyBonus", data[2])
    ELSE Err("ProficiencyBonus", "invalid type")

\* The identifier of each variant of enum Ability.
Ability_variant(self) ==
    CASE self = "Strength" -> "Strength"
      [] self = "Dexterity" -> "Dexterity"
      [] self = "Constitution" -> "Constitution"
      [] self = "Intelligence" -> "Intelligence"
      [] self = "Wisdom" -> "Wisdom"
      [] self = "Charisma" -> "Charisma"

\* A unit variant encodes as its identifier.
Ability_serialize(self) == JsonString(Ability_variant(self))

Ability_deserialize(data) ==
    IF data[1] = "string" /\ \E a \in Ability : Ability_variant(a) = data[2]
    THEN Decoded("Ability", CHOOSE a \in Ability : Ability_variant(a) = data[2])
    ELSE Err("Ability", "unknown variant")

\* The identifier of each variant of enum Skill.
Skill_variant(self) ==
    CASE self = "Acrobatics" -> "Acrobatics"
      [] self = "AnimalHandling" -> "AnimalHandling"
      [] self = "Arcana" -> "Arcana"
      [] self = "Athletics" -> "Athletics"
      [] self = "Deception" -> "Deception"
      [] self = "History" -> "History"
      [] self = "Insight" -> "Insight"
      [] self = "Intimidation" -> "Intimidation"
      [] self = "Investigation" -> "Investigation"
      [] self = "Medicine" -> "Medicine"
      [] self = "Nature" -> "Nature"
      [] self = "Perception" -> "Perception"
      [] self = "Performance" -> "Performance"
      [] self = "Persuasion" -> "Persuasion"
      [] self = "Religion" -> "Religion"
      [] self = "SleightOfHand" -> "SleightOfHand"
      [] self = "Stealth" -> "Stealth"
      [] self = "Survival" -> "Survival"

Skill_serialize(self) == JsonString(Skill_variant(self))

\* Plausible bug: decoding matches the display names, encoding the identifiers.
Skill_deserialize_ByName(data) ==
    IF data[1] = "string" /\ Skill_from_str(data[2]).tag = "Ok"
    THEN Decoded("Skill", Skill_from_str(data[2]).v)
    ELSE Err("Skill", "unknown variant")

Skill_deserialize(data) ==
    IF data[1] = "string" /\ \E s \in Skill : Skill_variant(s) = data[2]
    THEN Decoded("Skill", CHOOSE s \in Skill : Skill_variant(s) = data[2])
    ELSE Err("Skill", "unknown variant")

\* BitFlags::<Skill>::ALL, the bits of the eighteen variants.
BitFlags_ALL == 2 ^ Len(Skill_all) - 1

\* BitFlags encodes as its bits.
BitFlags_serialize(flags) == JsonNumber(flags)

\* BitFlags decodes from a u32 with no bit outside ALL.
BitFlags_valid(data) ==
    data[1] = "number" /\ data[2] >= 0 /\ BitAndNot(data[2], BitFlags_ALL) = 0

SkillProficiencies_serialize(self) ==
    JsonObject([proficient |-> BitFlags_serialize(self.proficient),
                expertise  |-> BitFlags_serialize(self.expertise)])

SkillProficiencies_deserialize(data) ==
    IF /\ data[1] = "object"
       /\ DOMAIN data[2] = {"proficient", "expertise"}
       /\ BitFlags_valid(data[2].proficient)
       /\ BitFlags_valid(data[2].expertise)
    THEN Decoded("SkillProficiencies",
                 [proficient |-> data[2].proficient[2],
                  expertise  |-> data[2].expertise[2]])
    ELSE Err("SkillProficiencies", "invalid value")

Abilities_serialize(self) ==
    JsonObject([strength     |-> AbilityScore_serialize(self.strength),
                dexterity    |-> AbilityScore_serialize(self.dexterity),
                constitution |-> AbilityScore_serialize(self.constitution),
                intelligence |-> AbilityScore_serialize(self.intelligence),
                wisdom       |-> AbilityScore_serialize(self.wisdom),
                charisma     |-> AbilityScore_serialize(self.charisma)])

Abilities_deserialize(data) ==
    IF /\ data[1] = "object"
       /\ DOMAIN data[2] =
              {"strength", "dexterity", "constitution", "intelligence", "wisdom", "charisma"}
       /\ \A f \in DOMAIN data[2] : AbilityScore_deserialize(data[2][f]).tag = "Decoded"
    THEN Decoded("Abilities",
                 [strength     |-> AbilityScore_deserialize(data[2].strength).v,
                  dexterity    |-> AbilityScore_deserialize(data[2].dexterity).v,
                  constitution |-> AbilityScore_deserialize(data[2].constitution).v,
                  intelligence |-> AbilityScore_deserialize(data[2].intelligence).v,
                  wisdom       |-> AbilityScore_deserialize(data[2].wisdom).v,
                  charisma     |-> AbilityScore_deserialize(data[2].charisma).v])
    ELSE Err("Abilities", "invalid type")

SerdeScalars == {"AbilityScore", "AbilityModifier", "Level", "ProficiencyBonus"}

SerdeTypes == SerdeScalars \cup {"Ability", "Skill", "SkillProficiencies", "Abilities"}

\* serde_json::to_string(&value), by the type of the value.
Serialize(ty, v) ==
    CASE ty = "AbilityScore" -> AbilityScore_serialize(v)
      [] ty = "AbilityModifier" -> AbilityModifier_serialize(v)
      [] ty = "Level" -> Level_serialize(v)
      [] ty = "ProficiencyBonus" -> ProficiencyBonus_serialize(v)
      [] ty = "Ability" -> Ability_serialize(v)
      [] ty = "Skill" -> Skill_serialize(v)
      [] ty = "SkillProficiencies" -> SkillProficiencies_serialize(v)
      [] ty = "Abilities" -> Abilities_serialize(v)

\* serde_json::from_str::<T>(data), by the type asked for.
Deserialize(ty, data) ==
    CASE ty = "AbilityScore" -> AbilityScore_deserialize(data)
      [] ty = "AbilityModifier" -> AbilityModifier_deserialize(data)
      [] ty = "Level" -> Level_deserialize(data)
      [] ty = "ProficiencyBonus" -> ProficiencyBonus_deserialize(data)
      [] ty = "Ability" -> Ability_deserialize(data)
      [] ty = "Skill" -> Skill_deserialize(data)
      [] ty = "SkillProficiencies" -> SkillProficiencies_deserialize(data)
      [] ty = "Abilities" -> Abilities_deserialize(data)

\* The range MIN..MAX of a bounded scalar type.
ScalarRange(ty) ==
    CASE ty = "AbilityScore" -> AbilityScore_MIN..AbilityScore_MAX
      [] ty = "AbilityModifier" -> AbilityModifier_MIN..AbilityModifier_MAX
      [] ty = "Level" -> Level_MIN..Level_MAX
      [] ty = "ProficiencyBonus" -> ProficiencyBonus_MIN..ProficiencyBonus_MAX

\* The values of a type that the public operations build.
Values(ty) ==
    CASE ty \in SerdeScalars -> ScalarRange(ty)
      [] ty = "Ability" -> Ability
      [] ty = "Skill" -> Skill
      [] ty = "SkillProficiencies" -> {with_proficiencies(pairs) : pairs \in InputPairSeqs}
      [] ty = "Abilities" ->
            {Abilities_index_mut(Abilities_with_uniform(u), a, v) :
                 u \in InputScores, a \in Ability, v \in InputScores}

\* Encoded integers run from -MaxEncoded to MaxEncoded, with the ends of the
\* i8 and u8 ranges and their neighbours.
MaxEncoded == 32

EncodedInts == (-MaxEncoded..MaxEncoded) \cup {-129, -128, 127, 128, 255, 256}

\* Encoded bit sets: low bits, the highest skill bit, and the bit above it.
EncodedBits == {0, 1, 2, 3, 2 ^ (Len(Skill_all) - 1), 2 ^ Len(Skill_all)}

\* The encoded data handed to a decode of the type.
EncodedData(ty) ==
    CASE ty \in SerdeScalars ->
            {JsonNumber(n) : n \in EncodedInts} \cup {JsonString("10")}
      [] ty \in {"Ability", "Skill"} ->
            {JsonString(s) : s \in InputStrings} \cup {JsonNumber(0)}
      [] ty = "SkillProficiencies" ->
            {JsonObject([proficient |-> JsonNumber(p), expertise |-> JsonNumber(e)]) :
                 p \in EncodedBits, e \in EncodedBits}
      [] ty = "Abilities" ->
            {Abilities_serialize(Abilities_index_mut(Abilities_new, a, n)) :
                 a \in Ability, n \in EncodedInts}

(***************************************************************************)
(* SpecScalar: one call per step.  A constructor takes any raw value of    *)
(* its 8-bit type; a derivation takes the scalar the last call returned.   *)
(***************************************************************************)
NoOp == [name |-> "new", skill |-> "", level |-> ""]

\* No operation has named any skill.
NoEffect == [skill \in Skill |-> None]

RECURSIVE EffectOf(_, _)
\* The levels asked for after one set_proficiency per pair, in order.
EffectOf(asked, pairs) ==
    IF pairs = <<>> THEN asked
    ELSE EffectOf([asked EXCEPT ![Head(pairs)[1]] = Some(Head(pairs)[2])], Tail(pairs))

NoAbilitiesOp == [name |-> "new", ability |-> "", value |-> 0]

\* Abilities::new(), no operation applied yet.
InitAbilityVars ==
    /\ abilities = Abilities_new
    /\ abilitiesPre = Abilities_new
    /\ abilitiesOp = NoAbilitiesOp
    /\ written = [a \in Ability |-> Abilities_index(Abilities_new, a)]

InitScalar ==
    /\ call = NoCall
    /\ ret = NoRet
    /\ profs = SkillProficiencies_new
    /\ pre = SkillProficiencies_new
    /\ op = NoOp
    /\ effect = NoEffect
    /\ InitAbilityVars

AbilityScoreNewClamped ==
    \E value \in U8 :
        /\ call' = [fn |-> "AbilityScore::new_clamped", arg |-> value]
        /\ ret' = AbilityScore_new_clamped(value)
        /\ UNCHANGED <<profs, pre, op, effect, abilityVars>>

AbilityModifierNewClamped ==
    \E value \in I8 :
        /\ call' = [fn |-> "AbilityModifier::new_clamped", arg |-> value]
        /\ ret' = AbilityModifier_new_clamped(value)
        /\ UNCHANGED <<profs, pre, op, effect, abilityVars>>

LevelNewClamped ==
    \E value \in U8 :
        /\ call' = [fn |-> "Level::new_clamped", arg |-> value]
        /\ ret' = Level_new_clamped(value)
        /\ UNCHANGED <<profs, pre, op, effect, abilityVars>>

ProficiencyBonusNewClamped ==
    \E value \in U8 :
        /\ call' = [fn |-> "ProficiencyBonus::new_clamped", arg |-> value]
        /\ ret' = ProficiencyBonus_new_clamped(value)
        /\ UNCHANGED <<profs, pre, op, effect, abilityVars>>

AbilityScoreTryNew ==
    \E value \in U8 :
        /\ \/ /\ call' = [fn |-> "AbilityScore::try_new", arg |-> value]
              /\ ret' = AbilityScore_try_new(value)
           \/ /\ call' = [fn |-> "AbilityScore::try_from", arg |-> value]
              /\ ret' = AbilityScore_try_from(value)
        /\ UNCHANGED <<profs, pre, op, effect, abilityVars>>

AbilityModifierTryNew ==
    \E value \in I8 :
        /\ \/ /\ call' = [fn |-> "AbilityModifier::try_new", arg |-> value]
              /\ ret' = AbilityModifier_try_new(value)
           \/ /\ call' = [fn |-> "AbilityModifier::try_from", arg |-> value]
              /\ ret' = AbilityModifier_try_from(value)
        /\ UNCHANGED <<profs, pre, op, effect, abilityVars>>

LevelTryNew ==
    \E value \in U8 :
        /\ \/ /\ call' = [fn |-> "Level::try_new", arg |-> value]
              /\ ret' = Level_try_new(value)
           \/ /\ call' = [fn |-> "Level::try_from", arg |-> value]
              /\ ret' = Level_try_from(value)
        /\ UNCHANGED <<profs, pre, op, effect, abilityVars>>

ProficiencyBonusTryNew ==
    \E value \in U8 :
        /\ \/ /\ call' = [fn |-> "ProficiencyBonus::try_new", arg |-> value]
              /\ ret' = ProficiencyBonus_try_new(value)
           \/ /\ call' = [fn |-> "ProficiencyBonus::try_from", arg |-> value]
              /\ ret' = ProficiencyBonus_try_from(value)
        /\ UNCHANGED <<profs, pre, op, effect, abilityVars>>

\* impl Default for AbilityScore: Self::DEFAULT
AbilityScoreDefault ==
    /\ call' = [fn |-> "AbilityScore::default", arg |-> 0]
    /\ ret' = Val("AbilityScore", AbilityScore_DEFAULT)
    /\ UNCHANGED <<profs, pre, op, effect, abilityVars>>

\* impl Default for Level: Self::MIN
LevelDefault ==
    /\ call' = [fn |-> "Level::default", arg |-> 0]
    /\ ret' = Val("Level", Level_MIN)
    /\ UNCHANGED <<profs, pre, op, effect, abilityVars>>

\* AbilityScore::MIN, AbilityScore::MAX, AbilityScore::DEFAULT
AbilityScoreConstant ==
    /\ \E c \in { <<"AbilityScore::MIN", AbilityScore_MIN>>,
                  <<"AbilityScore::MAX", AbilityScore_MAX>>,
                  <<"AbilityScore::DEFAULT", AbilityScore_DEFAULT>> } :
          /\ call' = [fn |-> c[1], arg |-> 0]
          /\ ret' = Val("AbilityScore", c[2])
    /\ UNCHANGED <<profs, pre, op, effect, abilityVars>>

\* AbilityModifier::MIN, AbilityModifier::MAX
AbilityModifierConstant ==
    /\ \E c \in { <<"AbilityModifier::MIN", AbilityModifier_MIN>>,
                  <<"AbilityModifier::MAX", AbilityModifier_MAX>> } :
          /\ call' = [fn |-> c[1], arg |-> 0]
          /\ ret' = Val("AbilityModifier", c[2])
    /\ UNCHANGED <<profs, pre, op, effect, abilityVars>>

\* Level::MIN, Level::MAX
LevelConstant ==
    /\ \E c \in { <<"Level::MIN", Level_MIN>>, <<"Level::MAX", Level_MAX>> } :
          /\ call' = [fn |-> c[1], arg |-> 0]
          /\ ret' = Val("Level", c[2])
    /\ UNCHANGED <<profs, pre, op, effect, abilityVars>>

\* ProficiencyBonus::MIN, ProficiencyBonus::MAX
ProficiencyBonusConstant ==
    /\ \E c \in { <<"ProficiencyBonus::MIN", ProficiencyBonus_MIN>>,
                  <<"ProficiencyBonus::MAX", ProficiencyBonus_MAX>> } :
          /\ call' = [fn |-> c[1], arg |-> 0]
          /\ ret' = Val("ProficiencyBonus", c[2])
    /\ UNCHANGED <<profs, pre, op, effect, abilityVars>>

\* score.modifier() and AbilityModifier::from(score), on the AbilityScore just obtained.
Modifier ==
    /\ Returned(ret, "AbilityScore")
    /\ \/ /\ call' = [fn |-> "AbilityScore::modifier", arg |-> ret.v]
          /\ ret' = AbilityScore_modifier(ret.v)
       \/ /\ call' = [fn |-> "AbilityModifier::from", arg |-> ret.v]
          /\ ret' = AbilityModifier_from(ret.v)
    /\ UNCHANGED <<profs, pre, op, effect, abilityVars>>

\* level.proficiency_bonus() and ProficiencyBonus::from(level), on the Level just obtained.
ProficiencyBonus ==
    /\ Returned(ret, "Level")
    /\ \/ /\ call' = [fn |-> "Level::proficiency_bonus", arg |-> ret.v]
          /\ ret' = Level_proficiency_bonus(ret.v)
       \/ /\ call' = [fn |-> "ProficiencyBonus::from", arg |-> ret.v]
          /\ ret' = ProficiencyBonus_from(ret.v)
    /\ UNCHANGED <<profs, pre, op, effect, abilityVars>>

\* skill.ability(), for each skill of Skill::all().
SkillAbility ==
    \E i \in 1..Len(Skill_all) :
        /\ call' = [fn |-> "Skill::ability", arg |-> Skill_all[i]]
        /\ ret' = Val("Ability", Skill_ability(Skill_all[i]))
        /\ UNCHANGED <<profs, pre, op, effect, abilityVars>>

\* ability.skills(), for each ability of Ability::all().
AbilitySkills ==
    \E i \in 1..Len(Ability_all) :
        /\ call' = [fn |-> "Ability::skills", arg |-> Ability_all[i]]
        /\ ret' = Val("Skills", Ability_skills(Ability_all[i]))
        /\ UNCHANGED <<profs, pre, op, effect, abilityVars>>


\* SkillProficiencies::with_proficiencies(pairs), for each bounded sequence
\* of (skill, level) pairs.
SkillProficienciesWithProficiencies ==
    \E pairs \in InputPairSeqs :
        /\ call' = [fn |-> "SkillProficiencies::with_proficiencies", arg |-> pairs]
        /\ ret' = Val("SkillProficiencies", with_proficiencies(pairs))
        /\ UNCHANGED <<profs, pre, op, effect, abilityVars>>


\* Ability::from_str(s), for each input string.
AbilityFromStr ==
    \E s \in InputStrings :
        /\ call' = [fn |-> "Ability::from_str", arg |-> s]
        /\ ret' = Ability_from_str(s)
        /\ UNCHANGED <<profs, pre, op, effect, abilityVars>>

\* Skill::from_str(s), for each input string.
SkillFromStr ==
    \E s \in InputStrings :
        /\ call' = [fn |-> "Skill::from_str", arg |-> s]
        /\ ret' = Skill_from_str(s)
        /\ UNCHANGED <<profs, pre, op, effect, abilityVars>>


\* Abilities::new() and Abilities::default().
AbilitiesNew ==
    /\ \/ /\ call' = [fn |-> "Abilities::new", arg |-> 0]
          /\ ret' = Val("Abilities", Abilities_new)
       \/ /\ call' = [fn |-> "Abilities::default", arg |-> 0]
          /\ ret' = Val("Abilities", Abilities_default)
    /\ UNCHANGED <<profs, pre, op, effect, abilityVars>>

\* Abilities::with_uniform(value), for the AbilityScore the last call returned.
AbilitiesWithUniform ==
    /\ Returned(ret, "AbilityScore")
    /\ call' = [fn |-> "Abilities::with_uniform", arg |-> ret.v]
    /\ ret' = Val("Abilities", Abilities_with_uniform(ret.v))
    /\ UNCHANGED <<profs, pre, op, effect, abilityVars>>


\* Ability::all() and Skill::all().
EnumAll ==
    /\ \/ /\ call' = [fn |-> "Ability::all", arg |-> 0]
          /\ ret' = Val("[Ability]", Ability_all)
       \/ /\ call' = [fn |-> "Skill::all", arg |-> 0]
          /\ ret' = Val("[Skill]", Skill_all)
    /\ UNCHANGED <<profs, pre, op, effect, abilityVars>>

NextScalar ==
    \/ AbilityScoreNewClamped
    \/ AbilityModifierNewClamped
    \/ LevelNewClamped
    \/ ProficiencyBonusNewClamped
    \/ AbilityScoreTryNew
    \/ AbilityModifierTryNew
    \/ LevelTryNew
    \/ ProficiencyBonusTryNew
    \/ AbilityScoreDefault
    \/ LevelDefault
    \/ AbilityScoreConstant
    \/ AbilityModifierConstant
    \/ LevelConstant
    \/ ProficiencyBonusConstant
    \/ Modifier
    \/ ProficiencyBonus
    \/ SkillAbility
    \/ AbilitySkills
    \/ SkillProficienciesWithProficiencies
    \/ AbilityFromStr
    \/ SkillFromStr
    \/ AbilitiesNew
    \/ AbilitiesWithUniform
    \/ EnumAll

SpecScalar == InitScalar /\ [][NextScalar]_vars



(***************************************************************************)
(* SpecBuild: one call of new(raw) per step, in a build with or without    *)
(* debug assertions.                                                       *)
(***************************************************************************)
AbilityScoreNew ==
    \E value \in U8 : \E debug_assertions \in BOOLEAN :
        /\ call' = [fn |-> "AbilityScore::new", arg |-> value,
                    debug_assertions |-> debug_assertions]
        /\ ret' = AbilityScore_new(value, debug_assertions)
        /\ UNCHANGED <<profs, pre, op, effect, abilityVars>>

AbilityModifierNew ==
    \E value \in I8 : \E debug_assertions \in BOOLEAN :
        /\ call' = [fn |-> "AbilityModifier::new", arg |-> value,
                    debug_assertions |-> debug_assertions]
        /\ ret' = AbilityModifier_new(value, debug_assertions)
        /\ UNCHANGED <<profs, pre, op, effect, abilityVars>>

ProficiencyBonusNew ==
    \E value \in U8 : \E debug_assertions \in BOOLEAN :
        /\ call' = [fn |-> "ProficiencyBonus::new", arg |-> value,
                    debug_assertions |-> debug_assertions]
        /\ ret' = ProficiencyBonus_new(value, debug_assertions)
        /\ UNCHANGED <<profs, pre, op, effect, abilityVars>>

NextBuild ==
    \/ AbilityScoreNew
    \/ AbilityModifierNew
    \/ ProficiencyBonusNew

SpecBuild == InitScalar /\ [][NextBuild]_vars

(***************************************************************************)
(* SpecSerde: one encode, decode or encode-then-decode per step.           *)
(***************************************************************************)
\* serde_json::to_string(&value), for each value of each type.
SerializeValue ==
    \E ty \in SerdeTypes : \E v \in Values(ty) :
        /\ call' = [fn |-> "serialize", arg |-> <<ty, v>>]
        /\ ret' = Val("Encoded", Serialize(ty, v))
        /\ UNCHANGED <<profs, pre, op, effect, abilityVars>>

\* serde_json::from_str::<T>(data), for each type and each encoded input.
DeserializeData ==
    \E ty \in SerdeTypes : \E data \in EncodedData(ty) :
        /\ call' = [fn |-> "deserialize", arg |-> <<ty, data>>]
        /\ ret' = Deserialize(ty, data)
        /\ UNCHANGED <<profs, pre, op, effect, abilityVars>>

\* from_str(&to_string(&value)), for each value of each type.
RoundTrip ==
    \E ty \in SerdeTypes : \E v \in Values(ty) :
        /\ call' = [fn |-> "round_trip", arg |-> <<ty, v>>]
        /\ ret' = Deserialize(ty, Serialize(ty, v))
        /\ UNCHANGED <<profs, pre, op, effect, abilityVars>>


\* level.proficiency_bonus(), for the Level the last decode returned: a
\* Level holding whatever u8 the encoded data gave.
DecodedLevelProficiencyBonus ==
    /\ ret.tag = "Decoded"
    /\ ret.ty = "Level"
    /\ call' = [fn |-> "Level::proficiency_bonus", arg |-> ret.v]
    /\ ret' = Level_proficiency_bonus(ret.v)
    /\ UNCHANGED <<profs, pre, op, effect, abilityVars>>

NextSerde ==
    \/ SerializeValue
    \/ DeserializeData
    \/ RoundTrip
    \/ DecodedLevelProficiencyBonus

SpecSerde == InitScalar /\ [][NextSerde]_vars

(***************************************************************************)
(* Spec: one SkillProficiencies value and the operations on it.  `pre`     *)
(* keeps the value the last operation started from; `effect` follows the   *)
(* level each operation asked for, skill by skill.                         *)
(***************************************************************************)
Init ==
    /\ profs = SkillProficiencies_new
    /\ pre = SkillProficiencies_new
    /\ op = NoOp
    /\ effect = NoEffect
    /\ call = NoCall
    /\ ret = NoRet
    /\ InitAbilityVars

\* SkillProficiencies::with_proficiencies(pairs): a fresh value replaces the old one.
WithProficiencies ==
    \E pairs \in InputPairSeqs :
        /\ op' = [name |-> "with_proficiencies", skill |-> "", level |-> ""]
        /\ pre' = SkillProficiencies_new
        /\ profs' = with_proficiencies(pairs)
        /\ effect' = EffectOf(NoEffect, pairs)
        /\ UNCHANGED <<call, ret, abilityVars>>

SetProficiency ==
    \E skill \in InputSkills, level \in SkillLevel :
        /\ op' = [name |-> "set_proficiency", skill |-> skill, level |-> level]
        /\ pre' = profs
        /\ profs' = set_proficiency(profs, skill, level)
        /\ effect' = [effect EXCEPT ![skill] = Some(level)]
        /\ UNCHANGED <<call, ret, abilityVars>>

SetProficiencies ==
    \E pairs \in InputPairSeqs :
        /\ op' = [name |-> "set_proficiencies", skill |-> "", level |-> ""]
        /\ pre' = profs
        /\ profs' = set_proficiencies(profs, pairs)
        /\ effect' = EffectOf(effect, pairs)
        /\ UNCHANGED <<call, ret, abilityVars>>

SetProficient ==
    \E skill \in InputSkills :
        /\ op' = [name |-> "set_proficient", skill |-> skill, level |-> ""]
        /\ pre' = profs
        /\ profs' = set_proficient(profs, skill)
        /\ effect' = [effect EXCEPT ![skill] = Some("Proficient")]
        /\ UNCHANGED <<call, ret, abilityVars>>

SetExpertise ==
    \E skill \in InputSkills :
        /\ op' = [name |-> "set_expertise", skill |-> skill, level |-> ""]
        /\ pre' = profs
        /\ profs' = set_expertise(profs, skill)
        /\ effect' = [effect EXCEPT ![skill] = Some("Expertise")]
        /\ UNCHANGED <<call, ret, abilityVars>>

ClearProficiency ==
    \E skill \in InputSkills :
        /\ op' = [name |-> "clear_proficiency", skill |-> skill, level |-> ""]
        /\ pre' = profs
        /\ profs' = clear_proficiency(profs, skill)
        /\ effect' = [effect EXCEPT ![skill] = None]
        /\ UNCHANGED <<call, ret, abilityVars>>

ClearAll ==
    /\ op' = [name |-> "clear_all", skill |-> "", level |-> ""]
    /\ pre' = profs
    /\ profs' = clear_all(profs)
    /\ effect' = NoEffect
    /\ UNCHANGED <<call, ret, abilityVars>>

Next ==
    \/ WithProficiencies
    \/ SetProficiency
    \/ SetProficiencies
    \/ SetProficient
    \/ SetExpertise
    \/ ClearProficiency
    \/ ClearAll

Spec == Init /\ [][Next]_vars

(***************************************************************************)
(* SpecAbilities: one Abilities value, its constructors and its indexed    *)
(* writes.  `abilitiesPre` keeps the value the last operation started      *)
(* from; `written` follows, per ability, the score last stored.            *)
(***************************************************************************)
\* abilities = Abilities::new(), or Abilities::default()
NewAbilities ==
    \E made \in {Abilities_new, Abilities_default} :
        /\ abilitiesOp' = [name |-> "new", ability |-> "", value |-> 0]
        /\ abilitiesPre' = abilities
        /\ abilities' = made
        /\ written' = [a \in Ability |-> Abilities_index(made, a)]
        /\ UNCHANGED <<call, ret, profs, pre, op, effect>>

\* abilities = Abilities::with_uniform(value)
WithUniform ==
    \E value \in InputScores :
        /\ abilitiesOp' = [name |-> "with_uniform", ability |-> "", value |-> value]
        /\ abilitiesPre' = abilities
        /\ abilities' = Abilities_with_uniform(value)
        /\ written' = [a \in Ability |-> Abilities_index(Abilities_with_uniform(value), a)]
        /\ UNCHANGED <<call, ret, profs, pre, op, effect>>

\* abilities[ability] = value
IndexMut ==
    \E i \in 1..Len(Ability_all) : \E value \in InputScores :
        /\ abilitiesOp' = [name |-> "index_mut", ability |-> Ability_all[i], value |-> value]
        /\ abilitiesPre' = abilities
        /\ abilities' = Abilities_index_mut(abilities, Ability_all[i], value)
        /\ written' = [written EXCEPT ![Ability_all[i]] = value]
        /\ UNCHANGED <<call, ret, profs, pre, op, effect>>

NextAbilities ==
    \/ NewAbilities
    \/ WithUniform
    \/ IndexMut

SpecAbilities == Init /\ [][NextAbilities]_vars

(***************************************************************************)
(* Properties of the bounded scalars and the tables (SpecScalar).          *)
(***************************************************************************)
\* C1: every scalar a public construction path returns (new_clamped, a
\* successful try_new / TryFrom, Default, the MIN / MAX / DEFAULT constants,
\* AbilityScore::modifier, Level::proficiency_bonus), for any raw 8-bit
\* input, lies within its type's range: AbilityScore 1..30, AbilityModifier
\* -5..10, Level 1..20, ProficiencyBonus 2..9.
C1_ScalarWithinRange ==
    /\ Returned(ret, "AbilityScore") => 1 <= ret.v /\ ret.v <= 30
    /\ Returned(ret, "AbilityModifier") => -5 <= ret.v /\ ret.v <= 10
    /\ Returned(ret, "Level") => 1 <= ret.v /\ ret.v <= 20
    /\ Returned(ret, "ProficiencyBonus") => 2 <= ret.v /\ ret.v <= 9

\* The largest i8 given to AbilityModifier::new_clamped comes back as 10.
C1_Witness ==
    /\ call.fn = "AbilityModifier::new_clamped"
    /\ call.arg = 127
    /\ Returned(ret, "AbilityModifier")
    /\ ret.v = 10

\* The score-to-modifier table of the specification.
ExpectedModifier(score) ==
    CASE score = 1 -> -5
      [] score \in {2, 3} -> -4
      [] score \in {4, 5} -> -3
      [] score \in {6, 7} -> -2
      [] score \in {8, 9} -> -1
      [] score \in {10, 11} -> 0
      [] score \in {12, 13} -> 1
      [] score \in {14, 15} -> 2
      [] score \in {16, 17} -> 3
      [] score \in {18, 19} -> 4
      [] score \in {20, 21} -> 5
      [] score \in {22, 23} -> 6
      [] score \in {24, 25} -> 7
      [] score \in {26, 27} -> 8
      [] score \in {28, 29} -> 9
      [] score = 30 -> 10

\* C3: for every AbilityScore s in 1..30, s.modifier() is floor((s - 10) / 2),
\* which is the table 1 -> -5, 2,3 -> -4, ..., 28,29 -> 9, 30 -> 10, and
\* AbilityModifier::from(s) is the same value.
C3_ModifierIsFloorHalf ==
    call.fn \in {"AbilityScore::modifier", "AbilityModifier::from"} =>
        /\ call.arg \in 1..30
        /\ ret = Val("AbilityModifier", ExpectedModifier(call.arg))
        /\ ret.v = (call.arg - 10) \div 2
        /\ 2 * ret.v <= call.arg - 10
        /\ call.arg - 10 < 2 * ret.v + 2

\* Score 9 (an odd negative delta) converts to modifier -1.
C3_Witness ==
    /\ call.fn = "AbilityModifier::from"
    /\ call.arg = 9
    /\ ret.v = -1

\* The level-to-bonus table of the specification.
ExpectedBonus(level) ==
    CASE level \in 1..4 -> 2
      [] level \in 5..8 -> 3
      [] level \in 9..12 -> 4
      [] level \in 13..16 -> 5
      [] level \in 17..20 -> 6

\* C4: for every Level l in 1..20, l.proficiency_bonus() is 2 for 1..4, 3 for
\* 5..8, 4 for 9..12, 5 for 13..16 and 6 for 17..20, and
\* ProficiencyBonus::from(l) is the same value.
C4_ProficiencyBonusTable ==
    call.fn \in {"Level::proficiency_bonus", "ProficiencyBonus::from"} =>
        /\ call.arg \in 1..20
        /\ ret = Val("ProficiencyBonus", ExpectedBonus(call.arg))

\* Level 5, the first level of the second tier, converts to bonus 3.
C4_Witness ==
    /\ call.fn = "ProficiencyBonus::from"
    /\ call.arg = 5
    /\ ret.v = 3

\* new_clamped(raw) of a type with range lo..hi returned a value, the nearest
\* one in range.
ClampsTo(fn, ty, lo, hi) ==
    call.fn = fn =>
        /\ ret.tag = "Val"
        /\ ret.ty = ty
        /\ call.arg < lo => ret.v = lo
        /\ call.arg > hi => ret.v = hi
        /\ (lo <= call.arg /\ call.arg <= hi) => ret.v = call.arg

\* C5: for each bounded scalar type and every raw 8-bit input, new_clamped
\* never fails and returns MIN below the range, MAX above it and the raw
\* value inside it.
C5_NewClampedSaturates ==
    /\ ClampsTo("AbilityScore::new_clamped", "AbilityScore", 1, 30)
    /\ ClampsTo("AbilityModifier::new_clamped", "AbilityModifier", -5, 10)
    /\ ClampsTo("Level::new_clamped", "Level", 1, 20)
    /\ ClampsTo("ProficiencyBonus::new_clamped", "ProficiencyBonus", 2, 9)

\* Level::new_clamped(255) is Level 20.
C5_Witness ==
    /\ call.fn = "Level::new_clamped"
    /\ call.arg = 255
    /\ ret.tag = "Val"
    /\ ret.v = 20

\* try_new / TryFrom of a type with range lo..hi: Ok(raw) inside the range,
\* the type's own "less than" / "greater than" message outside it.
Validates(fns, ty, lo, hi, tooLow, tooHigh) ==
    call.fn \in fns =>
        /\ ret.ty = ty
        /\ ret.tag \in {"Ok", "Err"}
        /\ ret.tag = "Ok" <=> (lo <= call.arg /\ call.arg <= hi)
        /\ ret.tag = "Ok" => ret.v = call.arg
        /\ call.arg < lo => ret.msg = tooLow
        /\ call.arg > hi => ret.msg = tooHigh

\* C6: for each bounded scalar type and every raw 8-bit input, try_new (and
\* TryFrom) returns Ok(v) with v.value() = raw exactly when MIN <= raw <= MAX,
\* and otherwise the error naming the type and the bound that was passed.
C6_TryNewValidates ==
    /\ Validates({"AbilityScore::try_new", "AbilityScore::try_from"}, "AbilityScore",
                 1, 30, "Ability score cannot be less than 1",
                 "Ability score cannot be greater than 30")
    /\ Validates({"AbilityModifier::try_new", "AbilityModifier::try_from"},
                 "AbilityModifier", -5, 10, "Ability modifier cannot be less than -5",
                 "Ability modifier cannot be greater than 10")
    /\ Validates({"Level::try_new", "Level::try_from"}, "Level",
                 1, 20, "Level cannot be less than 1", "Level cannot be greater than 20")
    /\ Validates({"ProficiencyBonus::try_new", "ProficiencyBonus::try_from"},
                 "ProficiencyBonus", 2, 9, "Proficiency bonus cannot be less than 2",
                 "Proficiency bonus cannot be greater than 9")

\* Level::try_from(21) is refused with the Level message.
C6_Witness ==
    /\ call.fn = "Level::try_from"
    /\ call.arg = 21
    /\ ret.tag = "Err"
    /\ ret.msg = "Level cannot be greater than 20"

\* C7: for every one of the eighteen skills s, s.ability().skills() contains s.
C7_AbilityListsItsSkill ==
    call.fn = "Skill::ability" =>
        /\ call.arg \in Skill
        /\ ret.v \in Ability
        /\ Contains(Ability_skills(ret.v), call.arg)

\* Stealth is a Dexterity skill, and last in Dexterity's list.
C7_Witness ==
    /\ call.fn = "Skill::ability"
    /\ call.arg = "Stealth"
    /\ ret.v = "Dexterity"
    /\ Ability_skills(ret.v)[3] = "Stealth"

(***************************************************************************)
(* Properties of SkillProficiencies (Spec).                                *)
(***************************************************************************)
\* C2: in every state reached from new() or with_proficiencies(..) by
\* set_proficiency, set_proficiencies, set_proficient, set_expertise,
\* clear_proficiency and clear_all, no skill is in both the proficient set
\* and the expertise set.
C2_SetsDisjoint ==
    \A skill \in Skill : ~(is_proficient(profs, skill) /\ has_expertise(profs, skill))

\* A skill that had Expertise was set Proficient.
C2_Witness ==
    /\ op.name = "set_proficiency"
    /\ op.level = "Proficient"
    /\ has_expertise(pre, op.skill)
    /\ is_proficient(profs, op.skill)

\* C8: after set_proficient(X), X is Proficient and has no Expertise; after
\* set_expertise(X), X has Expertise and is not Proficient; whatever X was
\* before, so that either call made after the other leaves only its own level.
C8_SetEvictsOtherLevel ==
    /\ op.name = "set_proficient" =>
          is_proficient(profs, op.skill) /\ ~has_expertise(profs, op.skill)
    /\ op.name = "set_expertise" =>
          has_expertise(profs, op.skill) /\ ~is_proficient(profs, op.skill)

\* set_expertise(X) was applied to a value in which X was Proficient.
C8_Witness ==
    /\ op.name = "set_expertise"
    /\ is_proficient(pre, op.skill)
    /\ has_expertise(profs, op.skill)

\* C9: after clear_proficiency(X), X is in the None state: not Proficient, no
\* Expertise, get_proficiency(X) = None and iter() does not yield X, whatever
\* X was before.
C9_ClearProficiencyToNone ==
    op.name = "clear_proficiency" =>
        /\ ~is_proficient(profs, op.skill)
        /\ ~has_expertise(profs, op.skill)
        /\ get_proficiency(profs, op.skill) = None
        /\ \A i \in 1..Len(iter(profs)) : iter(profs)[i][1] # op.skill

\* clear_proficiency(X) was applied to a value in which X had Expertise, and
\* another skill keeps its level.
C9_Witness ==
    /\ op.name = "clear_proficiency"
    /\ has_expertise(pre, op.skill)
    /\ iter(profs) # <<>>

\* C10: after clear_all(), iter() yields nothing, get_proficiency(s) = None for
\* every one of the eighteen skills, and the value equals
\* SkillProficiencies::new().
C10_ClearAllEmpties ==
    op.name = "clear_all" =>
        /\ iter(profs) = <<>>
        /\ \A skill \in Skill : get_proficiency(profs, skill) = None
        /\ profs = SkillProficiencies_new

\* clear_all() was applied to a value holding a Proficient skill and a skill
\* with Expertise.
C10_Witness ==
    /\ op.name = "clear_all"
    /\ \E s, t \in Skill : is_proficient(pre, s) /\ has_expertise(pre, t)


\* C11: in every reachable state and for every one of the eighteen skills the
\* three queries agree: get_proficiency is Some(Expertise) exactly when
\* has_expertise holds, Some(Proficient) exactly when is_proficient holds,
\* None exactly when neither holds; is_proficient and has_expertise are never
\* both true.
C11_QueriesAgree ==
    \A skill \in Skill :
        /\ get_proficiency(profs, skill) = Some("Expertise") <=> has_expertise(profs, skill)
        /\ get_proficiency(profs, skill) = Some("Proficient") <=> is_proficient(profs, skill)
        /\ get_proficiency(profs, skill) = None <=>
               (~is_proficient(profs, skill) /\ ~has_expertise(profs, skill))
        /\ ~(is_proficient(profs, skill) /\ has_expertise(profs, skill))
        /\ has_expertise(profs, skill) => ~is_proficient(profs, skill)

\* A proficient skill was just raised to expertise while another skill is
\* proficient and a third has no level.
C11_Witness ==
    /\ op.name = "set_expertise"
    /\ is_proficient(pre, op.skill)
    /\ get_proficiency(profs, op.skill) = Some("Expertise")
    /\ \E other \in Skill : get_proficiency(profs, other) = Some("Proficient")
    /\ \E other \in Skill : get_proficiency(profs, other) = None

\* The skills of Skill::all() whose level in self is not None.
Leveled(self) == {skill \in Skill : get_proficiency(self, skill) # None}

\* C12: in every reachable state iter() yields one pair (s, get_proficiency(s))
\* for each skill s whose level is not None and nothing else, in the order
\* of Skill::all(), whatever the order in which the skills were set.
C12_IterInDeclarationOrder ==
    LET pairs == iter(profs)
    IN  /\ Len(pairs) = Cardinality(Leveled(profs))
        /\ \A i \in 1..Len(pairs) :
               /\ pairs[i][1] \in Skill
               /\ get_proficiency(profs, pairs[i][1]) = Some(pairs[i][2])
        /\ \A skill \in Leveled(profs) :
               Cardinality({i \in 1..Len(pairs) : pairs[i][1] = skill}) = 1
        /\ \A i \in 1..Len(pairs) : \A j \in 1..Len(pairs) :
               i < j => Skill_index(pairs[i][1]) < Skill_index(pairs[j][1])

\* Survival got expertise first, Acrobatics became proficient after it, and
\* iter() still yields Acrobatics before Survival.
C12_Witness ==
    /\ op.name = "set_proficient"
    /\ op.skill = "Acrobatics"
    /\ get_proficiency(pre, "Acrobatics") = None
    /\ has_expertise(pre, "Survival")
    /\ iter(profs) = << <<"Acrobatics", "Proficient">>, <<"Survival", "Expertise">> >>

(***************************************************************************)
(* Properties of the bulk constructor (SpecScalar).                        *)
(***************************************************************************)
RECURSIVE SetOneByOne(_, _)
\* new() followed by set_proficiency(skill, level) for the first n pairs.
SetOneByOne(pairs, n) ==
    IF n = 0 THEN SkillProficiencies_new
    ELSE set_proficiency(SetOneByOne(pairs, n - 1), pairs[n][1], pairs[n][2])

\* The level of the last pair naming the skill, None when no pair names it.
LastLevel(pairs, skill) ==
    LET named == {i \in 1..Len(pairs) : pairs[i][1] = skill}
    IN  IF named = {} THEN None
        ELSE Some(pairs[CHOOSE i \in named : \A j \in named : j <= i][2])

\* C13: with_proficiencies(pairs) is new() followed by one set_proficiency
\* per pair in order: each skill ends at the level of the last pair naming
\* it, and a skill no pair names is None.
C13_WithProficienciesLastWins ==
    call.fn = "SkillProficiencies::with_proficiencies" =>
        /\ ret = Val("SkillProficiencies", SetOneByOne(call.arg, Len(call.arg)))
        /\ \A skill \in Skill :
               get_proficiency(ret.v, skill) = LastLevel(call.arg, skill)

\* Two pairs name Acrobatics, Proficient first and Expertise last; the result
\* has Expertise.
C13_Witness ==
    /\ call.fn = "SkillProficiencies::with_proficiencies"
    /\ call.arg = << <<"Acrobatics", "Proficient">>, <<"Acrobatics", "Expertise">> >>
    /\ get_proficiency(ret.v, "Acrobatics") = Some("Expertise")
    /\ get_proficiency(ret.v, "Survival") = None

(***************************************************************************)
(* Properties of parsing (SpecScalar).                                     *)
(***************************************************************************)
\* The result is Ok(v) of the type.
IsOk(r, ty, v) == r.tag = "Ok" /\ r.ty = ty /\ r.v = v

\* The result is Err(msg) of the type.
IsErr(r, ty, msg) == r.tag = "Err" /\ r.ty = ty /\ r.msg = msg

\* C17: Ability::from_str accepts exactly twelve strings, case-sensitively:
\* the name and the abbreviation of each ability parse to that ability (so
\* "STR" and "Strength" give the same value), and every other string,
\* lowercase variants and "invalid" included, gives Err("Unknown ability").
C17_AbilityFromStrTwelve ==
    call.fn = "Ability::from_str" =>
        LET parsed == {a \in Ability : call.arg \in {Ability_name(a), Ability_abbr(a)}}
            twelve == {"Strength", "STR", "Dexterity", "DEX", "Constitution", "CON",
                       "Intelligence", "INT", "Wisdom", "WIS", "Charisma", "CHA"}
        IN  /\ Cardinality(twelve) = 12
            /\ twelve = {Ability_name(a) : a \in Ability} \cup {Ability_abbr(a) : a \in Ability}
            /\ ret.tag = "Ok" <=> call.arg \in twelve
            /\ \A a \in parsed : IsOk(ret, "Ability", a)
            /\ parsed = {} => IsErr(ret, "Ability", "Unknown ability")

\* The abbreviation "STR" parsed to Strength.
C17_Witness ==
    /\ call.fn = "Ability::from_str"
    /\ call.arg = "STR"
    /\ IsOk(ret, "Ability", "Strength")

\* C18: Skill::from_str is the inverse of Skill::name: the display name of
\* each of the eighteen skills parses to that skill, and a string that is
\* not one of the eighteen display names ("sleight of hand", "SleightOfHand",
\* an abbreviation) gives Err("Unknown skill").
C18_SkillFromStrInvertsName ==
    call.fn = "Skill::from_str" =>
        LET parsed == {s \in Skill : call.arg = Skill_name(s)}
        IN  /\ Cardinality({Skill_name(s) : s \in Skill}) = 18
            /\ \A s \in parsed : IsOk(ret, "Skill", s)
            /\ parsed = {} => IsErr(ret, "Skill", "Unknown skill")
            /\ ret.tag = "Ok" => Skill_name(ret.v) = call.arg

\* The display name "Sleight of Hand" parsed to SleightOfHand.
C18_Witness ==
    /\ call.fn = "Skill::from_str"
    /\ call.arg = "Sleight of Hand"
    /\ IsOk(ret, "Skill", "SleightOfHand")

(***************************************************************************)
(* Properties of encoding and decoding (SpecSerde).                        *)
(***************************************************************************)
\* C14: decoding a bounded scalar (AbilityScore, AbilityModifier, Level,
\* ProficiencyBonus, each AbilityScore field of Abilities) re-validates the
\* range: for an encoded integer outside MIN..MAX the decode fails or gives
\* a clamped value, so no decoded scalar lies outside MIN..MAX.
C14_DecodeRevalidates ==
    call.fn = "deserialize" =>
        /\ call.arg[1] \in SerdeScalars =>
               \/ ret.tag = "Err"
               \/ ret.v \in ScalarRange(call.arg[1])
        /\ call.arg[1] = "Abilities" =>
               \/ ret.tag = "Err"
               \/ \A a \in Ability :
                      Abilities_index(ret.v, a) \in ScalarRange("AbilityScore")

\* The encoded number 255 decoded to an AbilityScore of value 255.
C14_Witness ==
    /\ call.fn = "deserialize"
    /\ call.arg = <<"AbilityScore", JsonNumber(255)>>
    /\ ret = Decoded("AbilityScore", 255)
    /\ ret.v > AbilityScore_MAX

\* C15: every Ability and every Skill encodes as its string name: the
\* encoded string of each of the six abilities is name(), and so is the
\* encoded string of each of the eighteen skills (SleightOfHand as
\* "Sleight of Hand", AnimalHandling as "Animal Handling").
C15_EncodesAsName ==
    call.fn = "serialize" =>
        /\ call.arg[1] = "Ability" => ret.v = JsonString(Ability_name(call.arg[2]))
        /\ call.arg[1] = "Skill" => ret.v = JsonString(Skill_name(call.arg[2]))

\* Skill::SleightOfHand encoded as the string "SleightOfHand", which is not
\* its name.
C15_Witness ==
    /\ call.fn = "serialize"
    /\ call.arg = <<"Skill", "SleightOfHand">>
    /\ ret.v = JsonString("SleightOfHand")
    /\ Skill_name("SleightOfHand") = "Sleight of Hand"

\* C16: encode followed by decode is the identity: for every Ability, every
\* Skill, every in-range value of the four bounded scalars, every reachable
\* SkillProficiencies value (and every Abilities value), decode(encode(x))
\* is Ok(x).
C16_RoundTripIsIdentity ==
    call.fn = "round_trip" =>
        /\ ret.tag = "Decoded"
        /\ ret.ty = call.arg[1]
        /\ ret.v = call.arg[2]

\* A SkillProficiencies value with Acrobatics proficient and Survival (the
\* highest bit) at expertise came back from its encoding unchanged.
C16_Witness ==
    /\ call.fn = "round_trip"
    /\ call.arg[1] = "SkillProficiencies"
    /\ is_proficient(call.arg[2], "Acrobatics")
    /\ has_expertise(call.arg[2], "Survival")
    /\ ret.tag = "Decoded"
    /\ ret.v = call.arg[2]

(***************************************************************************)
(* Properties of Abilities (SpecScalar for the constructors, SpecAbilities *)
(* for the indexed writes).                                                *)
(***************************************************************************)
\* The six slots of an Abilities value, in field order.
Slots(self) ==
    <<self.strength, self.dexterity, self.constitution,
      self.intelligence, self.wisdom, self.charisma>>

\* C19: Abilities::new() and Abilities::default() equal
\* Abilities::with_uniform(AbilityScore::DEFAULT), all six slots holding 10;
\* for every AbilityScore v, with_uniform(v) has all six slots equal to v.
C19_UniformConstructors ==
    /\ call.fn \in {"Abilities::new", "Abilities::default"} =>
           /\ ret = Val("Abilities", Abilities_with_uniform(AbilityScore_DEFAULT))
           /\ Slots(ret.v) = <<10, 10, 10, 10, 10, 10>>
    /\ call.fn = "Abilities::with_uniform" =>
           /\ ret.tag = "Val"
           /\ DOMAIN ret.v =
                  {"strength", "dexterity", "constitution", "intelligence", "wisdom", "charisma"}
           /\ \A i \in 1..6 : Slots(ret.v)[i] = call.arg
           /\ \A a \in Ability : Abilities_index(ret.v, a) = call.arg

\* with_uniform of score 12 has 12 in the last slot as in the first.
C19_Witness ==
    /\ call.fn = "Abilities::with_uniform"
    /\ call.arg = 12
    /\ ret.v.strength = 12
    /\ ret.v.charisma = 12

\* The field of Abilities named after the ability.
FieldOf(ability) ==
    CASE ability = "Strength" -> "strength"
      [] ability = "Dexterity" -> "dexterity"
      [] ability = "Constitution" -> "constitution"
      [] ability = "Intelligence" -> "intelligence"
      [] ability = "Wisdom" -> "wisdom"
      [] ability = "Charisma" -> "charisma"

\* C20: the indexed write abilities[a] = v makes the indexed read
\* abilities[a] and the field named after a equal v and leaves the other
\* five slots as they were; after any sequence of writes each slot holds
\* the score last written to it, or the score it was constructed with.
C20_IndexedWriteFrame ==
    /\ abilitiesOp.name = "index_mut" =>
           /\ Abilities_index(abilities, abilitiesOp.ability) = abilitiesOp.value
           /\ abilities[FieldOf(abilitiesOp.ability)] = abilitiesOp.value
           /\ \A other \in Ability \ {abilitiesOp.ability} :
                  /\ Abilities_index(abilities, other) = Abilities_index(abilitiesPre, other)
                  /\ abilities[FieldOf(other)] = abilitiesPre[FieldOf(other)]
    /\ \A a \in Ability :
           /\ Abilities_index(abilities, a) = written[a]
           /\ abilities[FieldOf(a)] = written[a]

\* Wisdom was written over its constructed 10 while Strength keeps a score
\* written earlier and Charisma its constructed score.
C20_Witness ==
    /\ abilitiesOp = [name |-> "index_mut", ability |-> "Wisdom", value |-> 1]
    /\ abilitiesPre.wisdom = 10
    /\ abilitiesPre.strength = 2
    /\ abilities = [strength |-> 2, dexterity |-> 10, constitution |-> 10,
                    intelligence |-> 10, wisdom |-> 1, charisma |-> 10]

\* C21: for every Abilities record iter() yields exactly six pairs
\* (a, abilities[a]) in the order Strength, Dexterity, Constitution,
\* Intelligence, Wisdom, Charisma, each with the score now stored in the
\* slot of its ability.
C21_IterSixInOrder ==
    LET pairs == Abilities_iter(abilities)
    IN  /\ Len(pairs) = 6
        /\ [i \in 1..Len(pairs) |-> pairs[i][1]] =
               <<"Strength", "Dexterity", "Constitution", "Intelligence", "Wisdom", "Charisma">>
        /\ \A i \in 1..Len(pairs) : pairs[i][2] = abilities[FieldOf(pairs[i][1])]
        /\ pairs = << <<"Strength", abilities.strength>>,
                      <<"Dexterity", abilities.dexterity>>,
                      <<"Constitution", abilities.constitution>>,
                      <<"Intelligence", abilities.intelligence>>,
                      <<"Wisdom", abilities.wisdom>>,
                      <<"Charisma", abilities.charisma>> >>

\* After Charisma was written, with Strength written earlier, iter() carries
\* both written scores in their places.
C21_Witness ==
    /\ abilitiesOp = [name |-> "index_mut", ability |-> "Charisma", value |-> 1]
    /\ abilitiesPre.charisma = 10
    /\ Abilities_iter(abilities) =
           << <<"Strength", 2>>, <<"Dexterity", 10>>, <<"Constitution", 10>>,
              <<"Intelligence", 10>>, <<"Wisdom", 10>>, <<"Charisma", 1>> >>

(***************************************************************************)
(* Properties of the enumerations and their tables (SpecScalar).           *)
(***************************************************************************)
\* The elements of the sequence are pairwise distinct.
Distinct(seq) == \A i \in 1..Len(seq) : \A j \in 1..Len(seq) : i # j => seq[i] # seq[j]

\* The set of the elements of the sequence.
Range(seq) == {seq[i] : i \in 1..Len(seq)}

\* C22: Ability::all() has exactly 6 pairwise distinct elements in
\* declaration order (first Strength, last Charisma), Skill::all() exactly
\* 18 pairwise distinct elements in declaration order (first Acrobatics,
\* last Survival), and every variant of each enumeration is in its all().
C22_AllListsEveryVariant ==
    /\ call.fn = "Ability::all" =>
           /\ Len(ret.v) = 6
           /\ Distinct(ret.v)
           /\ ret.v[1] = "Strength"
           /\ ret.v[Len(ret.v)] = "Charisma"
           /\ ret.v = <<"Strength", "Dexterity", "Constitution",
                        "Intelligence", "Wisdom", "Charisma">>
           /\ Range(ret.v) = Ability
    /\ call.fn = "Skill::all" =>
           /\ Len(ret.v) = 18
           /\ Distinct(ret.v)
           /\ ret.v[1] = "Acrobatics"
           /\ ret.v[Len(ret.v)] = "Survival"
           /\ ret.v = <<"Acrobatics", "AnimalHandling", "Arcana", "Athletics",
                        "Deception", "History", "Insight", "Intimidation",
                        "Investigation", "Medicine", "Nature", "Perception",
                        "Performance", "Persuasion", "Religion", "SleightOfHand",
                        "Stealth", "Survival">>
           /\ Range(ret.v) = Skill

\* Skill::all() was called and returned eighteen elements ending in Survival.
C22_Witness ==
    /\ call.fn = "Skill::all"
    /\ Len(ret.v) = 18
    /\ ret.v[18] = "Survival"

(***************************************************************************)
(* Properties of new(raw) (SpecBuild).                                     *)
(***************************************************************************)
\* new(raw) of a type with range lo..hi: with debug assertions it panics
\* with the message for every raw outside the range; otherwise it returns
\* what new_clamped(raw) returns, which inside the range is raw itself.
NewAsserts(fn, ty, lo, hi, message, clamped) ==
    call.fn = fn =>
        IF call.debug_assertions /\ (call.arg < lo \/ call.arg > hi)
        THEN ret.tag = "Panic" /\ ret.ty = ty /\ ret.msg = message
        ELSE /\ ret.tag = "Val"
             /\ ret.ty = ty
             /\ ret.v = clamped.v
             /\ (lo <= call.arg /\ call.arg <= hi) => ret.v = call.arg
             /\ call.arg < lo => ret.v = lo
             /\ call.arg > hi => ret.v = hi

C24_SkillListsPartition ==
    call.fn = "Ability::skills" =>
        /\ ret.tag = "Val"
        /\ \A i \in 1..Len(ret.v) :
               /\ ret.v[i] \in Skill
               /\ Skill_ability(ret.v[i]) = call.arg
        /\ Distinct(ret.v)
        /\ \A other \in Ability \ {call.arg} :
               Range(ret.v) \cap Range(Ability_skills(other)) = {}
        /\ UNION {Range(Ability_skills(a)) : a \in Ability} = Skill
        /\ Cardinality(UNION {Range(Ability_skills(a)) : a \in Ability}) = 18
        /\ call.arg = "Constitution" <=> ret.v = <<>>

\* Constitution.skills() was called and returned the empty list.
C24_Witness ==
    /\ call.fn = "Ability::skills"
    /\ call.arg = "Constitution"
    /\ ret.tag = "Val"
    /\ ret.v = <<>>

(***************************************************************************)
(* Properties of the proficiency-bonus lookup.                             *)
(***************************************************************************)
\* The bonus of a level above the Level range, as the specification lists it.
ExpectedExtendedBonus(level) ==
    CASE level \in 21..24 -> 7
      [] level \in 25..28 -> 8
      [] level \in 29..30 -> 9

\* C25: the lookup extends beyond the Level range: for a raw level value of
\* 21..24 it yields bonus 7, for 25..28 bonus 8, for 29..30 bonus 9, each
\* inside the ProficiencyBonus range 2..9, so that the clamped constructor
\* leaves it as it is.
C25_LookupExtendsTo30 ==
    (call.fn = "Level::proficiency_bonus" /\ call.arg \in 21..30) =>
        /\ ret.tag = "Val"
        /\ ret.ty = "ProficiencyBonus"
        /\ ret.v = ExpectedExtendedBonus(call.arg)
        /\ 2 <= ret.v /\ ret.v <= 9
        /\ ProficiencyBonus_new_clamped(ExpectedExtendedBonus(call.arg)).v =
               ExpectedExtendedBonus(call.arg)

\* The lookup was applied to a Level holding 30 and gave bonus 9.
C25_Witness ==
    /\ call.fn = "Level::proficiency_bonus"
    /\ call.arg = 30
    /\ ret.tag = "Val"
    /\ ret.v = 9

\* C26: Level::proficiency_bonus is total on every Level a caller can
\* obtain: for every Level that new_clamped, try_new, TryFrom<u8> or Default
\* returns, for any u8 input, the lookup does not reach the unreachable!()
\* arm and returns a bonus in 2..6.
C26_ProficiencyBonusTotal ==
    /\ Returned(ret, "Level") =>
           /\ Level_proficiency_bonus(ret.v).tag = "Val"
           /\ ProficiencyBonus_from(ret.v).tag = "Val"
    /\ call.fn \in {"Level::proficiency_bonus", "ProficiencyBonus::from"} =>
           /\ ret.tag # "Panic"
           /\ ret.tag = "Val"
           /\ ret.ty = "ProficiencyBonus"
           /\ 2 <= ret.v /\ ret.v <= 6

\* The lookup was applied to the highest Level, 20, and returned bonus 6.
C26_Witness ==
    /\ call.fn = "Level::proficiency_bonus"
    /\ call.arg = Level_MAX
    /\ ret.tag = "Val"
    /\ ret.v = 6

(***************************************************************************)
(* Refinement and frame of SkillProficiencies (Spec).                      *)
(***************************************************************************)
RECURSIVE BitsOf(_)
\* The bit set holding exactly the skills of the set.
BitsOf(skills) ==
    IF skills = {} THEN 0
    ELSE LET skill == CHOOSE s \in skills : TRUE
         IN  Skill_bits(skill) + BitsOf(skills \ {skill})

\* The one value that stands for a map from skills to levels.
ValueOf(map) ==
    [proficient |-> BitsOf({s \in Skill : map[s] = Some("Proficient")}),
     expertise  |-> BitsOf({s \in Skill : map[s] = Some("Expertise")})]

\* C27: the two bit sets refine a map Skill -> {None, Proficient, Expertise}
\* under last-writer-wins: after any sequence of set_proficient,
\* set_expertise, set_proficiency, clear_proficiency and clear_all from
\* new(), get_proficiency(X) is the effect of the last operation that named
\* X or was clear_all (None if there is none), and the value is determined
\* by that map, so two sequences with the same final map give equal values.
C27_RefinesLastWriterMap ==
    /\ \A skill \in Skill : get_proficiency(profs, skill) = effect[skill]
    /\ profs = ValueOf(effect)
    /\ profs = ValueOf([skill \in Skill |-> get_proficiency(profs, skill)])

\* Acrobatics was cleared after having had a level, while Survival keeps the
\* expertise an earlier operation gave it.
C27_Witness ==
    /\ op.name = "clear_proficiency"
    /\ op.skill = "Acrobatics"
    /\ get_proficiency(pre, "Acrobatics") = Some("Proficient")
    /\ effect["Acrobatics"] = None
    /\ effect["Survival"] = Some("Expertise")
    /\ get_proficiency(profs, "Survival") = Some("Expertise")

\* C28: a single-skill operation touches only the skill it names: for every
\* reachable state and all skills X # Y, set_proficient(X), set_expertise(X),
\* set_proficiency(X, _) and clear_proficiency(X) leave is_proficient(Y),
\* has_expertise(Y) and get_proficiency(Y) as they were.
C28_SingleSkillFrame ==
    op.name \in {"set_proficient", "set_expertise", "set_proficiency", "clear_proficiency"} =>
        \A other \in Skill \ {op.skill} :
            /\ is_proficient(profs, other) = is_proficient(pre, other)
            /\ has_expertise(profs, other) = has_expertise(pre, other)
            /\ get_proficiency(profs, other) = get_proficiency(pre, other)

\* Acrobatics became proficient while AnimalHandling was proficient and
\* Survival had expertise; both keep their levels.
C28_Witness ==
    /\ op.name = "set_proficient"
    /\ op.skill = "Acrobatics"
    /\ ~is_proficient(pre, "Acrobatics")
    /\ is_proficient(profs, "Acrobatics")
    /\ is_proficient(pre, "AnimalHandling")
    /\ is_proficient(profs, "AnimalHandling")
    /\ has_expertise(pre, "Survival")
    /\ has_expertise(profs, "Survival")

(***************************************************************************)
(* Decoding a SkillProficiencies value (SpecSerde).                        *)
(***************************************************************************)
\* C29: a SkillProficiencies value decoded from a record of its two fields
\* satisfies the disjointness invariant: for every encoded pair of
\* membership sets the decode fails or yields a value in which no skill is
\* in both sets, so is_proficient(s) and has_expertise(s) are never both
\* true for a decoded value.
C29_DecodedSetsDisjoint ==
    (call.fn = "deserialize" /\ call.arg[1] = "SkillProficiencies") =>
        \/ ret.tag = "Err"
        \/ \A skill \in Skill :
               ~(is_proficient(ret.v, skill) /\ has_expertise(ret.v, skill))

\* The record with bit 0 in both fields decoded to a value in which
\* Acrobatics is proficient and has expertise.
C29_Witness ==
    /\ call.fn = "deserialize"
    /\ call.arg = <<"SkillProficiencies",
                    JsonObject([proficient |-> JsonNumber(1), expertise |-> JsonNumber(1)])>>
    /\ ret.tag = "Decoded"
    /\ is_proficient(ret.v, "Acrobatics")
    /\ has_expertise(ret.v, "Acrobatics")

====
